---- MODULE Spec2Model ----
(***************************************************************************)
(* Model of the headless client supervisor,                                *)
(* rust/headless-client/src/standalone.rs: run_only_headless_client,       *)
(* get_token and read_token_file.                                          *)
(*                                                                         *)
(* Every call the supervisor makes on a collaborator (Control Session,     *)
(* DNS Controller, Tunnel Interface Manager, notifiers, system resolver    *)
(* query) and every event its select! picks is appended to `log`, in       *)
(* program order.                                                          *)
(***************************************************************************)
EXTENDS Integers, Sequences, FiniteSets, TLC

\* ------------------------------------------------------------------ bounds
\* Inputs offered to the loop per run: callbacks sent, signals delivered and
\* notifications raised.
MaxEvents == 2

\* Longest token file contents tried when get_token runs on its own.
MaxTokenBytes == 2

\* mpsc::channel(10)
ChannelCapacity == 10

\* ------------------------------------------------------------------ values
None == <<>>
Some(x) == <<x>>

ResolverLists == {<<"ns1">>, <<"ns2">>}
RouteSets == {<<"rt1">>, <<"rt2">>}
Reasons == {<<"auth failed">>, <<"portal gone">>}

\* dns_control::system_resolvers() -> Result<Vec<IpAddr>>
QueryResults ==
    {[ok |-> FALSE, val |-> <<>>]} \cup {[ok |-> TRUE, val |-> r] : r \in ResolverLists}

\* Result::unwrap_or_default
unwrap_or_default(q) == IF q.ok THEN q.val ELSE <<>>

\* InternalServerMsg, as sent through cb_tx
OnDisconnectMsgs == {[kind |-> "OnDisconnect", arg |-> r] : r \in Reasons}
OnSetInterfaceConfigMsgs ==
    {[kind |-> "OnSetInterfaceConfig", arg |-> <<"ip1", "ns1">>],
     [kind |-> "OnSetInterfaceConfig", arg |-> <<"ip2", "ns2">>]}
OnUpdateRoutesMsgs == {[kind |-> "OnUpdateRoutes", arg |-> r] : r \in RouteSets}
InternalServerMsg ==
    OnDisconnectMsgs
    \cup {[kind |-> "OnUpdateResources", arg |-> <<>>]}
    \cup {[kind |-> "TerminatingGracefully", arg |-> <<>>]}
    \cup OnSetInterfaceConfigMsgs
    \cup OnUpdateRoutesMsgs

\* anyhow::Result<()> of run_only_headless_client; "none" while it is running
NoResult == [kind |-> "none", why |-> <<>>]
Ok == [kind |-> "ok", why |-> <<>>]
Err(why) == [kind |-> "err", why |-> why]

\* Log entries: an event picked by select! (ev) or a call on a collaborator.
Ev(op, arg, ok) == [ev |-> TRUE, op |-> op, arg |-> arg, ok |-> ok]
Op(op, arg, ok) == [ev |-> FALSE, op |-> op, arg |-> arg, ok |-> ok]

\* ------------------------------------------------------------------ token
Whitespace == {" ", "\n"}

RECURSIVE TrimStart(_)
TrimStart(s) ==
    IF s # <<>> /\ Head(s) \in Whitespace THEN TrimStart(Tail(s)) ELSE s

RECURSIVE TrimEnd(_)
TrimEnd(s) ==
    IF s # <<>> /\ s[Len(s)] \in Whitespace THEN TrimEnd(SubSeq(s, 1, Len(s) - 1)) ELSE s

\* str::trim
Trim(s) == TrimEnd(TrimStart(s))

\* The token file as the three file-system calls see it.
TokenFiles ==
    {[exists |-> FALSE, perms_ok |-> TRUE, readable |-> TRUE, utf8 |-> TRUE, bytes |-> <<>>],
     [exists |-> TRUE, perms_ok |-> FALSE, readable |-> TRUE, utf8 |-> TRUE, bytes |-> <<"t">>],
     [exists |-> TRUE, perms_ok |-> TRUE, readable |-> TRUE, utf8 |-> TRUE,
      bytes |-> <<" ", "t", "\n">>]}

\* The token in the environment is the one the file holds.
EnvTokens == {None, Some(<<"t">>)}

\* Result<Option<SecretString>>
TokOk(opt) == [ok |-> TRUE, val |-> opt]
TokErr == [ok |-> FALSE, val |-> None]

\* Mutant of read_token_file: the file is read before its permissions are checked.
read_token_file_ReadFirst(env, file) ==
    IF env # None THEN TokOk(env)
    ELSE IF ~file.exists THEN TokOk(None)
    ELSE IF ~file.readable THEN TokOk(None)
    ELSE IF ~file.perms_ok THEN TokErr
    ELSE IF ~file.utf8 THEN TokErr
    ELSE TokOk(Some(Trim(file.bytes)))

read_token_file(env, file) ==
    IF env # None THEN TokOk(env)
    ELSE IF ~file.exists THEN TokOk(None)
    ELSE IF ~file.perms_ok THEN TokErr
    ELSE IF ~file.readable THEN TokOk(None)
    ELSE IF ~file.utf8 THEN TokErr
    ELSE TokOk(Some(Trim(file.bytes)))

get_token(token_env_var, env, file) ==
    IF token_env_var # None THEN TokOk(token_env_var) ELSE read_token_file(env, file)

\* ------------------------------------------------------------------ state
VARIABLES
    pc,                 \* where run_only_headless_client is
    cli_check,          \* --check
    cli_exit,           \* --exit
    token_file,         \* the file get_token is applied to, when it runs on its own
    env_token,          \* the process environment's TOKEN_ENV_KEY entry
    token_env_var,      \* cli.token.take(), until it is moved into get_token
    token,              \* Some(what get_token returned), None before the call
    cb_rx,              \* callbacks sent by the Control Session, not yet received
    cb_closed,          \* every cb_tx has been dropped
    cb_sent,            \* every callback sent through cb_tx so far, in order
    terminate_pending,  \* SIGINT / SIGTERM delivered, not yet received
    hangup_pending,     \* SIGHUP delivered, not yet received
    hangup_terminated,  \* the fused `hangup` future has completed
    last_connlib_start_instant, \* Some(_) until the first interface configuration
    result,             \* the function's result
    log                 \* events and collaborator calls, in order

vars ==
    <<pc, cli_check, cli_exit, token_file, env_token, token_env_var, token,
      cb_rx, cb_closed, cb_sent,
      terminate_pending, hangup_pending, hangup_terminated, last_connlib_start_instant,
      result, log>>

cliVars == <<cli_check, cli_exit, token_file>>
tokenVars == <<env_token, token_env_var, token>>
sourceVars == <<cb_rx, cb_closed, cb_sent, terminate_pending, hangup_pending>>

\* Events the loop has handled so far.
Handled == Cardinality({i \in 1..Len(log) : log[i].ev})

\* Inputs offered so far: handled, or waiting to be picked.
Offered ==
    Handled + Len(cb_rx) + (IF terminate_pending THEN 1 ELSE 0)
    + (IF hangup_pending THEN 1 ELSE 0)

Init ==
    /\ pc = "start"
    /\ cli_check \in BOOLEAN
    /\ cli_exit \in BOOLEAN
    /\ token_file = None
    /\ env_token \in EnvTokens
    /\ token_env_var = None
    /\ token = None
    /\ cb_rx = <<>>
    /\ cb_closed = FALSE
    /\ cb_sent = <<>>
    /\ terminate_pending = FALSE
    /\ hangup_pending = FALSE
    /\ hangup_terminated = FALSE
    /\ last_connlib_start_instant = TRUE
    /\ result = NoResult
    /\ log = <<>>

\* ---------------------------------------------------------------- startup
\* Mutant of TakeTokenEnvVar: the token is taken, the variable is left set.
TakeTokenEnvVar_NoScrub ==
    /\ pc = "start"
    /\ \E parse_ok \in BOOLEAN :
        IF parse_ok
        THEN /\ token_env_var' = env_token
             /\ pc' = "resolve"
             /\ UNCHANGED <<env_token, token, result>>
        ELSE /\ pc' = "done"
             /\ result' = Err(<<"cli">>)
             /\ UNCHANGED tokenVars
    /\ UNCHANGED <<cliVars, sourceVars, hangup_terminated, last_connlib_start_instant, log>>

\* Lines 96-115: parse the CLI, take the token, scrub the environment.
TakeTokenEnvVar ==
    /\ pc = "start"
    /\ \E parse_ok \in BOOLEAN :
        IF parse_ok
        THEN /\ token_env_var' = env_token
             /\ env_token' = None
             /\ pc' = "resolve"
             /\ UNCHANGED <<token, result>>
        ELSE /\ pc' = "done"
             /\ result' = Err(<<"cli">>)
             /\ UNCHANGED tokenVars
    /\ UNCHANGED <<cliVars, sourceVars, hangup_terminated, last_connlib_start_instant, log>>

\* Mutant of ResolveToken: --check is not looked at.
ResolveToken_IgnoreCheck ==
    /\ pc = "resolve"
    /\ \E rt_ok \in BOOLEAN, id_ok \in BOOLEAN, url_ok \in BOOLEAN, file \in TokenFiles :
        LET tok == get_token(token_env_var, env_token, file) IN
        /\ token' = IF rt_ok THEN Some(tok) ELSE None
        /\ log' = IF rt_ok /\ tok.ok /\ tok.val # None
                  THEN log \o <<Op("device_id.get_or_create", <<>>, id_ok)>>
                  ELSE log
        /\ IF ~rt_ok THEN pc' = "done" /\ result' = Err(<<"runtime">>)
           ELSE IF ~tok.ok THEN pc' = "done" /\ result' = Err(<<"token file">>)
           ELSE IF tok.val = None
               THEN pc' = "done" /\ result' = Err(<<"Can't find the Firezone token">>)
           ELSE IF ~id_ok THEN pc' = "done" /\ result' = Err(<<"firezone_id">>)
           ELSE IF ~url_ok THEN pc' = "done" /\ result' = Err(<<"login url">>)
           ELSE pc' = "connect" /\ UNCHANGED result
    /\ env_token' = None
    /\ token_env_var' = None
    /\ UNCHANGED <<cliVars, sourceVars, hangup_terminated, last_connlib_start_instant>>

\* Lines 132-163: runtime, token, device id, login URL, --check.  No
\* --firezone-id is given, so the device ID is read from disk, or generated
\* and saved there (lines 146-149).
ResolveToken ==
    /\ pc = "resolve"
    /\ \E rt_ok \in BOOLEAN, id_ok \in BOOLEAN, url_ok \in BOOLEAN, file \in TokenFiles :
        LET tok == get_token(token_env_var, env_token, file) IN
        /\ token' = IF rt_ok THEN Some(tok) ELSE None
        /\ log' = IF rt_ok /\ tok.ok /\ tok.val # None
                  THEN log \o <<Op("device_id.get_or_create", <<>>, id_ok)>>
                  ELSE log
        /\ IF ~rt_ok THEN pc' = "done" /\ result' = Err(<<"runtime">>)
           ELSE IF ~tok.ok THEN pc' = "done" /\ result' = Err(<<"token file">>)
           ELSE IF tok.val = None
               THEN pc' = "done" /\ result' = Err(<<"Can't find the Firezone token">>)
           ELSE IF ~id_ok THEN pc' = "done" /\ result' = Err(<<"firezone_id">>)
           ELSE IF ~url_ok THEN pc' = "done" /\ result' = Err(<<"login url">>)
           ELSE IF cli_check THEN pc' = "done" /\ result' = Ok
           ELSE pc' = "connect" /\ UNCHANGED result
    /\ env_token' = None
    /\ token_env_var' = None
    /\ UNCHANGED <<cliVars, sourceVars, hangup_terminated, last_connlib_start_instant>>

\* Lines 165-187: the callback channel, PhoenixChannel::connect, Session::connect.
ConnectSession ==
    /\ pc = "connect"
    /\ \E portal_ok \in BOOLEAN :
        IF portal_ok
        THEN /\ log' = log \o <<Op("PhoenixChannel.connect", <<>>, TRUE),
                                Op("Session.connect", <<>>, TRUE)>>
             /\ pc' = "block_on"
             /\ UNCHANGED result
        ELSE /\ log' = log \o <<Op("PhoenixChannel.connect", <<>>, FALSE)>>
             /\ pc' = "done"
             /\ result' = Err(<<"portal">>)
    /\ UNCHANGED <<cliVars, tokenVars, sourceVars, hangup_terminated,
                   last_connlib_start_instant>>

\* Mutant of StartupSteps: DNS deactivation moved after the interface is made.
StartupSteps_DeactivateLate ==
    <<"signals.Terminate.new", "signals.Hangup.new", "TunDeviceManager.new",
      "new_dns_notifier", "new_network_notifier", "tun_device.make_tun",
      "dns_controller.deactivate">>

\* Lines 190-210: the fallible steps before the interface is handed over, in order.
StartupSteps ==
    <<"signals.Terminate.new", "signals.Hangup.new", "dns_controller.deactivate",
      "TunDeviceManager.new", "new_dns_notifier", "new_network_notifier",
      "tun_device.make_tun">>

\* Mutant of StartupOps: the interface is made but not handed to the session.
StartupOps_NoHandOver(fail_at, q) ==
    LET n == Len(StartupSteps) IN
    IF fail_at = 0
    THEN [i \in 1..n |-> Op(StartupSteps[i], <<>>, TRUE)]
         \o <<Op("system_resolvers", q.val, q.ok),
              Op("session.set_dns", unwrap_or_default(q), TRUE)>>
    ELSE [i \in 1..fail_at |-> Op(StartupSteps[i], <<>>, i < fail_at)]

\* The calls of lines 190-212 when step `fail_at` fails (0: none does).
StartupOps(fail_at, q) ==
    LET n == Len(StartupSteps) IN
    IF fail_at = 0
    THEN [i \in 1..n |-> Op(StartupSteps[i], <<>>, TRUE)]
         \o <<Op("session.set_tun", <<>>, TRUE),
              Op("system_resolvers", q.val, q.ok),
              Op("session.set_dns", unwrap_or_default(q), TRUE)>>
    ELSE [i \in 1..fail_at |-> Op(StartupSteps[i], <<>>, i < fail_at)]

\* Lines 190-212: everything block_on runs before the loop.
Startup ==
    /\ pc = "block_on"
    /\ \E fail_at \in 0..Len(StartupSteps), q \in QueryResults :
        /\ log' = log \o StartupOps(fail_at, q)
        /\ IF fail_at = 0
           THEN pc' = "select" /\ UNCHANGED result
           ELSE pc' = "returned" /\ result' = Err(<<StartupSteps[fail_at]>>)
    /\ UNCHANGED <<cliVars, tokenVars, sourceVars, hangup_terminated,
                   last_connlib_start_instant>>

\* ------------------------------------------------------------- event loop
\* The loop is waiting in select!.
AtSelect == pc = "select"

\* `continue`
Continue == pc' = "select" /\ UNCHANGED result
\* `break r`
Break(r) == pc' = "after_loop" /\ result' = r
\* `?` on an Err inside the async block
Propagate(why) == pc' = "returned" /\ result' = Err(why)

\* Mutant of SelectTerminate: the arm goes on to the next iteration.
SelectTerminate_Continue ==
    /\ AtSelect
    /\ terminate_pending
    /\ terminate_pending' = FALSE
    /\ log' = log \o <<Ev("terminate", <<>>, TRUE)>>
    /\ Continue
    /\ UNCHANGED <<cliVars, tokenVars, cb_rx, cb_closed, cb_sent, hangup_pending,
                   hangup_terminated, last_connlib_start_instant>>

\* Lines 219-222
SelectTerminate ==
    /\ AtSelect
    /\ terminate_pending
    /\ terminate_pending' = FALSE
    /\ log' = log \o <<Ev("terminate", <<>>, TRUE)>>
    /\ Break(Ok)
    /\ UNCHANGED <<cliVars, tokenVars, cb_rx, cb_closed, cb_sent, hangup_pending, hangup_terminated,
                   last_connlib_start_instant>>

\* Lines 191, 193, 223-227: `hangup` is pinned and fused once, outside the loop;
\* select! skips a fused future that has completed.
SelectHangup ==
    /\ AtSelect
    /\ hangup_pending
    /\ ~hangup_terminated
    /\ hangup_pending' = FALSE
    /\ hangup_terminated' = TRUE
    /\ log' = log \o <<Ev("hangup", <<>>, TRUE), Op("session.reset", <<>>, TRUE)>>
    /\ Continue
    /\ UNCHANGED <<cliVars, tokenVars, cb_rx, cb_closed, cb_sent, terminate_pending,
                   last_connlib_start_instant>>

\* Mutant of DnsChangedOps: the re-query's error is swallowed as on line 212.
DnsChangedOps_UnwrapOrDefault(notified_ok, q) ==
    IF ~notified_ok THEN <<Ev("dns_changed", <<>>, FALSE)>>
    ELSE <<Ev("dns_changed", <<>>, TRUE), Op("system_resolvers", q.val, q.ok),
           Op("session.set_dns", unwrap_or_default(q), TRUE)>>

\* Lines 228-235: what the dns_changed arm does.
DnsChangedOps(notified_ok, q) ==
    IF ~notified_ok THEN <<Ev("dns_changed", <<>>, FALSE)>>
    ELSE IF ~q.ok THEN <<Ev("dns_changed", <<>>, TRUE), Op("system_resolvers", <<>>, FALSE)>>
    ELSE <<Ev("dns_changed", <<>>, TRUE), Op("system_resolvers", q.val, TRUE),
           Op("session.set_dns", q.val, TRUE)>>

DnsChangedNext(notified_ok, q) ==
    IF ~notified_ok THEN Propagate(<<"dns_notifier">>)
    ELSE IF ~q.ok THEN Propagate(<<"system_resolvers">>)
    ELSE Continue

SelectDnsChanged ==
    /\ AtSelect
    /\ Offered < MaxEvents
    /\ \E notified_ok \in BOOLEAN, q \in QueryResults :
        /\ log' = log \o DnsChangedOps(notified_ok, q)
        /\ DnsChangedNext(notified_ok, q)
    /\ UNCHANGED <<cliVars, tokenVars, sourceVars, hangup_terminated,
                   last_connlib_start_instant>>

\* Mutant of SelectNetworkChanged: the arm forgets to reset the session.
SelectNetworkChanged_NoReset ==
    /\ AtSelect
    /\ Offered < MaxEvents
    /\ \E notified_ok \in BOOLEAN :
        IF notified_ok
        THEN /\ log' = log \o <<Ev("network_changed", <<>>, TRUE)>>
             /\ Continue
        ELSE /\ log' = log \o <<Ev("network_changed", <<>>, FALSE)>>
             /\ Propagate(<<"network_notifier">>)
    /\ UNCHANGED <<cliVars, tokenVars, sourceVars, hangup_terminated,
                   last_connlib_start_instant>>

\* Lines 236-241
SelectNetworkChanged ==
    /\ AtSelect
    /\ Offered < MaxEvents
    /\ \E notified_ok \in BOOLEAN :
        IF notified_ok
        THEN /\ log' = log \o <<Ev("network_changed", <<>>, TRUE),
                                Op("session.reset", <<>>, TRUE)>>
             /\ Continue
        ELSE /\ log' = log \o <<Ev("network_changed", <<>>, FALSE)>>
             /\ Propagate(<<"network_notifier">>)
    /\ UNCHANGED <<cliVars, tokenVars, sourceVars, hangup_terminated,
                   last_connlib_start_instant>>

\* Mutant of Received: whatever is queued behind the callback is dropped.
Received_DropQueued(kind) ==
    /\ AtSelect
    /\ cb_rx # <<>>
    /\ Head(cb_rx).kind = kind
    /\ cb_rx' = <<>>

\* Line 242: cb_rx.next() yields the next callback.
Received(kind) ==
    /\ AtSelect
    /\ cb_rx # <<>>
    /\ Head(cb_rx).kind = kind
    /\ cb_rx' = Tail(cb_rx)

\* Mutant of CallbackStreamEnded: the end of the stream ends the loop gracefully.
CallbackStreamEnded_Graceful ==
    /\ AtSelect
    /\ cb_rx = <<>>
    /\ cb_closed
    /\ log' = log \o <<Ev("cb.None", <<>>, FALSE)>>
    /\ Break(Ok)
    /\ UNCHANGED <<cliVars, tokenVars, sourceVars, hangup_terminated,
                   last_connlib_start_instant>>

\* Line 242: cb_rx.next() yields None.
CallbackStreamEnded ==
    /\ AtSelect
    /\ cb_rx = <<>>
    /\ cb_closed
    /\ log' = log \o <<Ev("cb.None", <<>>, FALSE)>>
    /\ Propagate(<<"cb_rx unexpectedly ran empty">>)
    /\ UNCHANGED <<cliVars, tokenVars, sourceVars, hangup_terminated,
                   last_connlib_start_instant>>

\* Mutant of OnDisconnect: the arm falls through to the next iteration.
OnDisconnect_Continue ==
    /\ Received("OnDisconnect")
    /\ log' = log \o <<Ev("cb.OnDisconnect", Head(cb_rx).arg, TRUE)>>
    /\ Continue
    /\ UNCHANGED <<cliVars, tokenVars, cb_closed, cb_sent, terminate_pending, hangup_pending,
                   hangup_terminated, last_connlib_start_instant>>

\* Lines 247-250
OnDisconnect ==
    /\ Received("OnDisconnect")
    /\ log' = log \o <<Ev("cb.OnDisconnect", Head(cb_rx).arg, TRUE)>>
    /\ Break(Err(<<"Firezone disconnected">> \o Head(cb_rx).arg))
    /\ UNCHANGED <<cliVars, tokenVars, cb_closed, cb_sent, terminate_pending, hangup_pending,
                   hangup_terminated, last_connlib_start_instant>>

\* Mutant of OnUpdateResources: a failed flush is not returned.
OnUpdateResources_FlushErrorDropped ==
    /\ Received("OnUpdateResources")
    /\ \E flush_ok \in BOOLEAN :
        /\ log' = log \o <<Ev("cb.OnUpdateResources", <<>>, TRUE),
                           Op("dns_controller.flush", <<>>, flush_ok)>>
        /\ Continue
    /\ UNCHANGED <<cliVars, tokenVars, cb_closed, cb_sent, terminate_pending, hangup_pending,
                   hangup_terminated, last_connlib_start_instant>>

\* Lines 251-254
OnUpdateResources ==
    /\ Received("OnUpdateResources")
    /\ \E flush_ok \in BOOLEAN :
        /\ log' = log \o <<Ev("cb.OnUpdateResources", <<>>, TRUE),
                           Op("dns_controller.flush", <<>>, flush_ok)>>
        /\ IF flush_ok THEN Continue ELSE Propagate(<<"dns_controller.flush">>)
    /\ UNCHANGED <<cliVars, tokenVars, cb_closed, cb_sent, terminate_pending, hangup_pending,
                   hangup_terminated, last_connlib_start_instant>>

\* Mutant of TerminatingGracefully: the message is ignored.
TerminatingGracefully_Ignored ==
    /\ Received("TerminatingGracefully")
    /\ log' = log \o <<Ev("cb.TerminatingGracefully", <<>>, TRUE)>>
    /\ Continue
    /\ UNCHANGED <<cliVars, tokenVars, cb_closed, cb_sent, terminate_pending, hangup_pending,
                   hangup_terminated, last_connlib_start_instant>>

\* Lines 255-257: unimplemented!() panics; nothing of the function runs after it.
TerminatingGracefully ==
    /\ Received("TerminatingGracefully")
    /\ log' = log \o <<Ev("cb.TerminatingGracefully", <<>>, TRUE)>>
    /\ pc' = "panicked"
    /\ UNCHANGED <<result, cliVars, tokenVars, cb_closed, cb_sent, terminate_pending, hangup_pending,
                   hangup_terminated, last_connlib_start_instant>>

\* Mutant of SetInterfaceConfigOps: the resolvers are applied before the addresses.
SetInterfaceConfigOps_DnsFirst(msg, first, ips_ok, dns_ok, notify_ok) ==
    <<Op("dns_controller.set_dns", SubSeq(msg.arg, 2, 2), dns_ok)>>
    \o (IF dns_ok THEN <<Op("tun_device.set_ips", SubSeq(msg.arg, 1, 1), ips_ok)>>
        ELSE <<>>)
    \o (IF ips_ok /\ dns_ok /\ first
        THEN <<Op("notify_service_controller", <<>>, notify_ok)>>
        ELSE <<>>)

\* Lines 259-267: the calls made for OnSetInterfaceConfig { ipv4, ipv6, dns }.
SetInterfaceConfigOps(msg, first, ips_ok, dns_ok, notify_ok) ==
    <<Op("tun_device.set_ips", SubSeq(msg.arg, 1, 1), ips_ok)>>
    \o (IF ips_ok THEN <<Op("dns_controller.set_dns", SubSeq(msg.arg, 2, 2), dns_ok)>>
        ELSE <<>>)
    \o (IF ips_ok /\ dns_ok /\ first
        THEN <<Op("notify_service_controller", <<>>, notify_ok)>>
        ELSE <<>>)

\* Mutant of SetInterfaceConfigNext: --exit is not looked at.
SetInterfaceConfigNext_NoExit(exit, first, ips_ok, dns_ok, notify_ok) ==
    IF ~ips_ok THEN Propagate(<<"tun_device.set_ips">>)
    ELSE IF ~dns_ok THEN Propagate(<<"dns_controller.set_dns">>)
    ELSE IF first /\ ~notify_ok THEN Propagate(<<"notify_service_controller">>)
    ELSE Continue

\* Mutant of SetInterfaceConfigNext: a failed dns_controller.set_dns is not returned.
SetInterfaceConfigNext_DnsErrorDropped(exit, first, ips_ok, dns_ok, notify_ok) ==
    IF ~ips_ok THEN Propagate(<<"tun_device.set_ips">>)
    ELSE IF dns_ok /\ first /\ ~notify_ok THEN Propagate(<<"notify_service_controller">>)
    ELSE IF dns_ok /\ exit THEN Break(Ok)
    ELSE Continue

\* Lines 259-271: how the OnSetInterfaceConfig arm ends.
SetInterfaceConfigNext(exit, first, ips_ok, dns_ok, notify_ok) ==
    IF ~ips_ok THEN Propagate(<<"tun_device.set_ips">>)
    ELSE IF ~dns_ok THEN Propagate(<<"dns_controller.set_dns">>)
    ELSE IF first /\ ~notify_ok THEN Propagate(<<"notify_service_controller">>)
    ELSE IF exit THEN Break(Ok)
    ELSE Continue

\* Lines 258-272
OnSetInterfaceConfig ==
    /\ Received("OnSetInterfaceConfig")
    /\ \E ips_ok \in BOOLEAN, dns_ok \in BOOLEAN, notify_ok \in BOOLEAN :
        LET msg == Head(cb_rx)
            first == last_connlib_start_instant IN
        /\ log' = log \o <<Ev("cb.OnSetInterfaceConfig", msg.arg, TRUE)>>
                      \o SetInterfaceConfigOps(msg, first, ips_ok, dns_ok, notify_ok)
        /\ last_connlib_start_instant' =
               IF ips_ok /\ dns_ok THEN FALSE ELSE last_connlib_start_instant
        /\ SetInterfaceConfigNext(cli_exit, first, ips_ok, dns_ok, notify_ok)
    /\ UNCHANGED <<cliVars, tokenVars, cb_closed, cb_sent, terminate_pending, hangup_pending,
                   hangup_terminated>>

\* Lines 273-275
OnUpdateRoutes ==
    /\ Received("OnUpdateRoutes")
    /\ \E routes_ok \in BOOLEAN :
        /\ log' = log \o <<Ev("cb.OnUpdateRoutes", Head(cb_rx).arg, TRUE),
                           Op("tun_device.set_routes", Head(cb_rx).arg, routes_ok)>>
        /\ IF routes_ok THEN Continue ELSE Propagate(<<"tun_device.set_routes">>)
    /\ UNCHANGED <<cliVars, tokenVars, cb_closed, cb_sent, terminate_pending, hangup_pending,
                   hangup_terminated, last_connlib_start_instant>>

\* --------------------------------------------------------------- teardown
\* Mutant of CloseNetworkNotifier: the teardown also flushes the DNS Controller.
CloseNetworkNotifier_FlushDns ==
    /\ pc = "after_loop"
    /\ \E close_ok \in BOOLEAN :
        log' = log \o <<Op("network_notifier.close", <<>>, close_ok),
                        Op("dns_controller.flush", <<>>, TRUE)>>
    /\ pc' = "returned"
    /\ UNCHANGED <<result, cliVars, tokenVars, sourceVars, hangup_terminated,
                   last_connlib_start_instant>>

\* Lines 279-283: reached by `break` only; a close error is logged, not returned.
CloseNetworkNotifier ==
    /\ pc = "after_loop"
    /\ \E close_ok \in BOOLEAN :
        log' = log \o <<Op("network_notifier.close", <<>>, close_ok)>>
    /\ pc' = "returned"
    /\ UNCHANGED <<result, cliVars, tokenVars, sourceVars, hangup_terminated,
                   last_connlib_start_instant>>

\* Mutant of Disconnect: an Err from block_on is returned before disconnecting.
Disconnect_OnlyOnSuccess ==
    /\ pc = "returned"
    /\ log' = IF result.kind = "ok"
              THEN log \o <<Op("session.disconnect", <<>>, TRUE)>>
              ELSE log
    /\ pc' = "done"
    /\ UNCHANGED <<result, cliVars, tokenVars, sourceVars, hangup_terminated,
                   last_connlib_start_instant>>

\* Lines 286-288: block_on has returned.
Disconnect ==
    /\ pc = "returned"
    /\ log' = log \o <<Op("session.disconnect", <<>>, TRUE)>>
    /\ pc' = "done"
    /\ UNCHANGED <<result, cliVars, tokenVars, sourceVars, hangup_terminated,
                   last_connlib_start_instant>>

\* ------------------------------------------------------------ environment
\* The Control Session exists and the loop has not stopped.
SessionLive == pc \in {"block_on", "select"}

\* SIGINT / SIGTERM arrives.
DeliverTerminate ==
    /\ pc = "select"
    /\ Offered < MaxEvents
    /\ ~terminate_pending
    /\ terminate_pending' = TRUE
    /\ UNCHANGED <<pc, cliVars, tokenVars, cb_rx, cb_closed, cb_sent, hangup_pending, hangup_terminated,
                   last_connlib_start_instant, result, log>>

\* SIGHUP arrives.
DeliverHangup ==
    /\ pc = "select"
    /\ Offered < MaxEvents
    /\ ~hangup_pending
    /\ hangup_pending' = TRUE
    /\ UNCHANGED <<pc, cliVars, tokenVars, cb_rx, cb_closed, cb_sent, terminate_pending,
                   hangup_terminated, last_connlib_start_instant, result, log>>

\* The Control Session sends a callback through cb_tx.
SendCallback ==
    /\ SessionLive
    /\ ~cb_closed
    /\ Offered < MaxEvents
    /\ Len(cb_rx) < ChannelCapacity
    /\ \E msg \in InternalServerMsg :
        /\ cb_rx' = Append(cb_rx, msg)
        /\ cb_sent' = Append(cb_sent, msg)
    /\ UNCHANGED <<pc, cliVars, tokenVars, cb_closed, terminate_pending, hangup_pending,
                   hangup_terminated, last_connlib_start_instant, result, log>>

\* The Control Session drops cb_tx.
DropCallbackSender ==
    /\ SessionLive
    /\ ~cb_closed
    /\ cb_closed' = TRUE
    /\ UNCHANGED <<pc, cliVars, tokenVars, cb_rx, cb_sent, terminate_pending, hangup_pending,
                   hangup_terminated, last_connlib_start_instant, result, log>>

Next ==
    \/ TakeTokenEnvVar
    \/ ResolveToken
    \/ ConnectSession
    \/ Startup
    \/ SelectTerminate
    \/ SelectHangup
    \/ SelectDnsChanged
    \/ SelectNetworkChanged
    \/ CallbackStreamEnded
    \/ OnDisconnect
    \/ OnUpdateResources
    \/ TerminatingGracefully
    \/ OnSetInterfaceConfig
    \/ OnUpdateRoutes
    \/ CloseNetworkNotifier
    \/ Disconnect
    \/ DeliverTerminate
    \/ DeliverHangup
    \/ SendCallback
    \/ DropCallbackSender

Spec == Init /\ [][Next]_vars

\* select! polls every arm on each iteration and takes one that is ready: a
\* signal, once delivered, keeps its arm ready until it is taken.
FairSpec == Spec /\ WF_vars(SelectTerminate)

\* ------------------------------------------------- get_token on its own
TokenBytes == {" ", "t", "\n"}
ByteStrings == UNION {[1..n -> TokenBytes] : n \in 0..MaxTokenBytes}

\* Every answer metadata, check_token_permissions, read and from_utf8 can give.
TokenFileInputs ==
    [exists : BOOLEAN, perms_ok : BOOLEAN, readable : BOOLEAN, utf8 : BOOLEAN,
     bytes : ByteStrings]

\* cli.token as taken on line 103; a token from the environment is not trimmed.
EnvTokenInputs == {None, Some(<<"e">>), Some(<<" ", "e">>)}

\* Lines 113-115 have removed the variable before get_token is called.
TokenInit ==
    /\ pc = "get_token"
    /\ cli_check = FALSE
    /\ cli_exit = FALSE
    /\ token_file \in TokenFileInputs
    /\ env_token = None
    /\ token_env_var \in EnvTokenInputs
    /\ token = None
    /\ cb_rx = <<>>
    /\ cb_closed = FALSE
    /\ cb_sent = <<>>
    /\ terminate_pending = FALSE
    /\ hangup_pending = FALSE
    /\ hangup_terminated = FALSE
    /\ last_connlib_start_instant = TRUE
    /\ result = NoResult
    /\ log = <<>>

\* Line 136: get_token(token_env_var, &cli.token_path)
GetToken ==
    /\ pc = "get_token"
    /\ token' = Some(get_token(token_env_var, env_token, token_file))
    /\ token_env_var' = None
    /\ env_token' = None
    /\ pc' = "got_token"
    /\ UNCHANGED <<cliVars, sourceVars, hangup_terminated, last_connlib_start_instant,
                   result, log>>

TokenSpec == TokenInit /\ [][GetToken]_vars

\* ------------------------------------------------------- reading the log
Count(op) == Cardinality({i \in 1..Len(log) : log[i].op = op})

\* Startup handed the interface over, so the loop was entered.
LoopStarted == \E i \in 1..Len(log) : log[i].op = "session.set_tun"

\* No event was handled after log entry i.
NoEvAfter(i) == \A j \in (i + 1)..Len(log) : ~log[j].ev

\* After the event at i the loop went on: it handled a later event or waits in select!.
LoopContinuesAfter(i) == NoEvAfter(i) => (pc = "select" /\ result = NoResult)

\* The event at i ended the loop with a failure outcome.
LoopFailedAt(i) ==
    /\ NoEvAfter(i)
    /\ pc \in {"after_loop", "returned", "done"}
    /\ result.kind = "err"

\* ------------------------------------------------------------------ C1
\* C1: once the Control Session exists and the event loop has stopped with an
\* outcome (success or failure), disconnect() is issued exactly once, as the
\* last call, after every handled event.
C1_DisconnectOnceAfterLoop ==
    /\ Count("session.disconnect") <= 1
    /\ Count("session.disconnect") = 1 =>
        /\ pc = "done"
        /\ log[Len(log)].op = "session.disconnect"
    /\ (LoopStarted /\ pc = "done") =>
        /\ Count("session.disconnect") = 1
        /\ result.kind \in {"ok", "err"}

C1_Witness ==
    /\ pc = "done"
    /\ LoopStarted
    /\ result = Err(<<"system_resolvers">>)
    /\ Handled >= 2
    /\ Count("session.disconnect") = 1

\* ------------------------------------------------------------------ C2
\* C2: on every exit from the event loop the network-change notifier is closed
\* exactly once, before disconnect().
C2_CloseOnceBeforeDisconnect ==
    (LoopStarted /\ pc = "done") =>
        /\ Count("network_notifier.close") = 1
        /\ \A i, j \in 1..Len(log) :
            (log[i].op = "network_notifier.close" /\ log[j].op = "session.disconnect")
                => i < j

\* ------------------------------------------------------------------ C3
\* C3: every Hangup delivered while the loop is running is handled as the first
\* one is: whenever the loop waits in select! with a SIGHUP pending, the hangup
\* arm is ready to take it; and a handled Hangup issues reset() and leaves the
\* loop running.
C3_EveryHangupHandled ==
    /\ (pc = "select" /\ hangup_pending) => ~hangup_terminated
    /\ \A i \in 1..Len(log) :
        log[i].op = "hangup" =>
            /\ i < Len(log)
            /\ log[i + 1].op = "session.reset"
            /\ LoopContinuesAfter(i)

\* ------------------------------------------------------------------ C4
\* C4 (as stated): the network-change arm always issues reset(), never ends the
\* loop and never surfaces an error.
C4_NetworkChangeNeverEndsLoop ==
    \A i \in 1..Len(log) :
        log[i].op = "network_changed" =>
            /\ i < Len(log)
            /\ log[i + 1].op = "session.reset"
            /\ LoopContinuesAfter(i)

\* C4 (amended): a network-change notification issues reset() and the loop
\* continues; an error from the network-change notifier issues no reset and
\* ends the loop with a failure outcome.
C4_NetworkChange ==
    \A i \in 1..Len(log) :
        log[i].op = "network_changed" =>
            IF log[i].ok
            THEN /\ i < Len(log)
                 /\ log[i + 1].op = "session.reset"
                 /\ LoopContinuesAfter(i)
            ELSE /\ \A j \in (i + 1)..Len(log) : log[j].op = "session.disconnect"
                 /\ LoopFailedAt(i)
                 /\ result = Err(<<"network_notifier">>)

C4_Witness ==
    \E i, j \in 1..Len(log) :
        /\ i < j
        /\ log[i].op = "network_changed" /\ log[i].ok
        /\ log[j].op = "network_changed" /\ ~log[j].ok
        /\ pc = "done"

\* ------------------------------------------------------------------ C5
\* C5: on each DNS-change notification the system resolvers are re-queried and
\* set_dns is issued with exactly the queried list, then the loop continues; if
\* the re-query fails no set_dns is issued and the loop ends with a failure.
C5_DnsChange ==
    \A i \in 1..Len(log) :
        (log[i].op = "dns_changed" /\ log[i].ok) =>
            /\ i < Len(log)
            /\ log[i + 1].op = "system_resolvers"
            /\ IF log[i + 1].ok
               THEN /\ i + 2 <= Len(log)
                    /\ log[i + 2] = Op("session.set_dns", log[i + 1].arg, TRUE)
                    /\ LoopContinuesAfter(i)
               ELSE /\ \A j \in (i + 1)..Len(log) : log[j].op # "session.set_dns"
                    /\ LoopFailedAt(i)

C5_Witness ==
    \E i, j \in 1..Len(log) :
        /\ i < j
        /\ log[i].op = "dns_changed" /\ log[i + 1] = Op("system_resolvers", <<"ns2">>, TRUE)
        /\ log[j].op = "dns_changed" /\ log[j].ok /\ ~log[j + 1].ok
        /\ pc = "done"

\* ------------------------------------------------------------------ C6
\* C6: Disconnected(reason) ends the loop in that iteration with a failure
\* carrying the reason, nothing is handled afterwards, and disconnect() is
\* still issued.
C6_Disconnected ==
    \A i \in 1..Len(log) :
        log[i].op = "cb.OnDisconnect" =>
            /\ LoopFailedAt(i)
            /\ result = Err(<<"Firezone disconnected">> \o log[i].arg)
            /\ pc = "done" => \E j \in (i + 1)..Len(log) : log[j].op = "session.disconnect"

C6_Witness ==
    /\ pc = "done"
    /\ cb_rx # <<>>
    /\ result = Err(<<"Firezone disconnected", "auth failed">>)
    /\ Count("session.disconnect") = 1

\* ------------------------------------------------------------------ C7
\* C7: TerminatingGracefully aborts: it is the last thing the process handles,
\* nothing runs after it and the run never ends with a success outcome.
C7_TerminatingGracefullyAborts ==
    \A i \in 1..Len(log) :
        log[i].op = "cb.TerminatingGracefully" =>
            /\ i = Len(log)
            /\ pc = "panicked"
            /\ result = NoResult

C7_Witness ==
    /\ pc = "panicked"
    /\ Handled = 1
    /\ cb_rx # <<>>

\* ------------------------------------------------------------------ C8
\* C8: for every InterfaceConfigSet the addresses are applied first and the
\* resolvers second, with that message's values; a failed address application
\* leaves the DNS Controller untouched, and a failure of either ends the loop
\* with a failure outcome.
C8_InterfaceConfigOrder ==
    \A i \in 1..Len(log) :
        log[i].op = "cb.OnSetInterfaceConfig" =>
            /\ i < Len(log)
            /\ log[i + 1].op = "tun_device.set_ips"
            /\ log[i + 1].arg = SubSeq(log[i].arg, 1, 1)
            /\ IF log[i + 1].ok
               THEN /\ i + 2 <= Len(log)
                    /\ log[i + 2].op = "dns_controller.set_dns"
                    /\ log[i + 2].arg = SubSeq(log[i].arg, 2, 2)
                    /\ ~log[i + 2].ok => LoopFailedAt(i)
               ELSE /\ \A j \in (i + 1)..Len(log) :
                        log[j].op \notin {"dns_controller.set_dns", "dns_controller.flush"}
                    /\ LoopFailedAt(i)

C8_Witness ==
    \E i, j \in 1..Len(log) :
        /\ i < j
        /\ log[i] = Ev("cb.OnSetInterfaceConfig", <<"ip2", "ns2">>, TRUE)
        /\ log[i + 1].ok /\ log[i + 2].ok
        /\ log[j].op = "cb.OnSetInterfaceConfig"
        /\ ~log[j + 1].ok
        /\ pc = "done"

\* ------------------------------------------------------------------ C9
\* Addresses and resolvers of the InterfaceConfigSet at i were both applied.
ConfigApplied(i) ==
    /\ log[i].op = "cb.OnSetInterfaceConfig"
    /\ i + 2 <= Len(log)
    /\ log[i + 1].ok
    /\ log[i + 2].op = "dns_controller.set_dns" /\ log[i + 2].ok

\* The readiness notification sent for the InterfaceConfigSet at i failed.
NotifyFailed(i) ==
    /\ i + 3 <= Len(log)
    /\ log[i + 3].op = "notify_service_controller"
    /\ ~log[i + 3].ok

\* The loop ended with success at the event at i.
LoopSucceededAt(i) ==
    /\ NoEvAfter(i)
    /\ pc \in {"after_loop", "returned", "done"}
    /\ result = Ok

\* C9 (as stated): with --exit a successfully applied InterfaceConfigSet ends
\* the loop with success and nothing else is handled; without --exit it never
\* ends the loop.
C9_ExitAfterFirstConfig ==
    \A i \in 1..Len(log) :
        ConfigApplied(i) =>
            IF cli_exit THEN LoopSucceededAt(i) ELSE LoopContinuesAfter(i)

\* C9 (amended): the same, provided the readiness notification sent on the
\* first applied configuration succeeds; if it fails the loop ends with a
\* failure outcome in either mode.
C9_ExitAfterFirstConfigNotified ==
    \A i \in 1..Len(log) :
        ConfigApplied(i) =>
            IF NotifyFailed(i)
            THEN LoopFailedAt(i) /\ result = Err(<<"notify_service_controller">>)
            ELSE IF cli_exit THEN LoopSucceededAt(i) ELSE LoopContinuesAfter(i)

C9_Witness ==
    /\ cli_exit
    /\ pc = "done"
    /\ result = Ok
    /\ cb_rx # <<>>
    /\ \E i \in 1..Len(log) : ConfigApplied(i) /\ ~NotifyFailed(i)

\* ------------------------------------------------------------------ C10
\* What the supervisor does with the tunnel interface, the Control Session's
\* commands and the DNS Controller's resolvers.
AfterDeactivation ==
    {"TunDeviceManager.new", "tun_device.make_tun", "tun_device.set_ips",
     "tun_device.set_routes", "session.set_tun", "session.set_dns", "session.reset",
     "dns_controller.set_dns", "dns_controller.flush"}

\* The process went past --check.
PastCheck == Count("PhoenixChannel.connect") > 0

DeactivationFirst ==
    /\ \A j \in 1..Len(log) :
        log[j].op \in AfterDeactivation =>
            \E i \in 1..(j - 1) : log[i].op = "dns_controller.deactivate"
    /\ \A i \in 1..Len(log) :
        (log[i].op = "dns_controller.deactivate" /\ ~log[i].ok) =>
            /\ Count("tun_device.make_tun") = 0
            /\ ~LoopStarted
            /\ Handled = 0

\* C10 (as stated): every start that goes past --check attempts DNS
\* deactivation exactly once, before anything else; a failed deactivation
\* means no interface and no loop.
C10_DeactivateExactlyOnce ==
    /\ (PastCheck /\ pc = "done") => Count("dns_controller.deactivate") = 1
    /\ DeactivationFirst

\* C10 (amended): DNS deactivation is attempted at most once, and exactly once
\* on every start on which the portal channel connects and both signal
\* listeners are installed; it comes before anything else, and a failed
\* deactivation means no interface and no loop.
C10_DeactivateOnceWhenReached ==
    /\ Count("dns_controller.deactivate") <= 1
    /\ (\E i \in 1..Len(log) : log[i].op = "signals.Hangup.new" /\ log[i].ok)
        <=> Count("dns_controller.deactivate") = 1
    /\ DeactivationFirst

C10_Witness ==
    /\ pc = "done"
    /\ result = Err(<<"dns_controller.deactivate">>)
    /\ Count("dns_controller.deactivate") = 1
    /\ Count("session.disconnect") = 1

\* ------------------------------------------------------------------ C11
\* C11: a Terminate signal delivered while the loop waits in select! leads to
\* the loop being left; and when the terminate arm is the one taken, the
\* outcome is success and no event is handled after it.
C11_TerminateEndsLoop ==
    /\ [](\A i \in 1..Len(log) :
            log[i].op = "terminate" =>
                /\ NoEvAfter(i)
                /\ pc \in {"after_loop", "returned", "done"}
                /\ result = Ok)
    /\ ((pc = "select" /\ terminate_pending) ~> (pc # "select"))

C11_Witness ==
    /\ pc = "done"
    /\ result = Ok
    /\ cb_rx # <<>>
    /\ Len(log) >= 3
    /\ log[Len(log) - 2].op = "terminate"
    /\ Handled = 1

\* ------------------------------------------------------------------ C12
\* C12: when the callback stream yields its end (every sender dropped, nothing
\* left to receive), the loop ends there with the failure "cb_rx unexpectedly
\* ran empty", never with success; and while the loop waits in select! on an
\* ended stream, the arm that reports the end is ready to be taken.
C12_StreamEndIsFailure ==
    /\ \A i \in 1..Len(log) :
        log[i].op = "cb.None" =>
            /\ LoopFailedAt(i)
            /\ result = Err(<<"cb_rx unexpectedly ran empty">>)
            /\ \A j \in 1..i : log[j].op # "cb.OnDisconnect"
    /\ (pc = "select" /\ cb_closed /\ cb_rx = <<>>) => ENABLED CallbackStreamEnded

C12_Witness ==
    /\ pc = "done"
    /\ result = Err(<<"cb_rx unexpectedly ran empty">>)
    /\ Handled = 2
    /\ Len(log) >= 2
    /\ log[Len(log) - 1].op = "cb.None"
    /\ cb_sent # <<>>

\* ------------------------------------------------------------------ C13
\* r is s without its leading and trailing whitespace.
IsTrimOf(r, s) ==
    /\ r = <<>> \/ (r[1] \notin Whitespace /\ r[Len(r)] \notin Whitespace)
    /\ \E a \in 0..Len(s) :
        /\ a + Len(r) <= Len(s)
        /\ \A k \in 1..Len(r) : s[a + k] = r[k]
        /\ \A k \in (1..a) \cup ((a + Len(r) + 1)..Len(s)) : s[k] \in Whitespace

\* What the claim says resolve(env, file) returns.
Resolved(env, file, out) ==
    IF env # None THEN out = TokOk(env)
    ELSE IF ~file.exists THEN out = TokOk(None)
    ELSE IF ~file.perms_ok THEN out = TokErr
    ELSE IF ~file.readable THEN out = TokOk(None)
    ELSE IF ~file.utf8 THEN out = TokErr
    ELSE out.ok /\ out.val # None /\ IsTrimOf(out.val[1], file.bytes)

TokenTaken == pc # "start" /\ result # Err(<<"cli">>)

\* C14: once startup has taken the token, the environment variable is unset
\* in every later state, whether or not it held a token, and it is already
\* unset when nothing else (runtime, token lookup, Control Session) exists
\* yet; and when neither the environment nor the file yields a token, startup
\* ends in an error with no collaborator ever called: no Control Session, no
\* DNS deactivation, no loop.
C14_EnvScrubbedAndTokenRequired ==
    /\ TokenTaken => env_token = None
    /\ (token # None \/ log # <<>>) => (TokenTaken /\ env_token = None)
    /\ token = Some(TokOk(None)) =>
        /\ pc = "done"
        /\ result = Err(<<"Can't find the Firezone token">>)
        /\ log = <<>>

C14_Witness ==
    /\ pc = "done"
    /\ token = Some(TokOk(None))
    /\ env_token = None
    /\ result = Err(<<"Can't find the Firezone token">>)

\* ------------------------------------------------------------------ C15
\* get_token found a token.
TokenFound == token # None /\ token[1].ok /\ token[1].val # None

\* What a --check run's result has to do with the token.
CheckResult ==
    (cli_check /\ pc = "done") =>
        /\ result.kind \in {"ok", "err"}
        /\ result = Ok => TokenFound
        /\ TokenFound => result \in {Ok, Err(<<"firezone_id">>), Err(<<"login url">>)}
        /\ (token # None /\ ~TokenFound) => result.kind = "err"

\* C15 (as stated): with --check the run ends after the validation, having
\* touched no system state at all and called nothing; it ends with success
\* when token and configuration are valid and with a failure when the token
\* is missing or rejected.
C15_CheckTouchesNothing ==
    /\ cli_check => (log = <<>> /\ pc \in {"start", "resolve", "done"})
    /\ CheckResult

\* C15 (amended): with --check the run ends after the validation without
\* constructing the Control Session, deactivating DNS, creating the interface
\* or issuing a session command; the one thing it may touch is the device ID,
\* which it looks up, and generates and saves when there is none, once a token
\* was found.  It ends with success when token and configuration are valid
\* and with a failure when the token is missing or rejected.
C15_CheckMode ==
    /\ cli_check =>
        /\ pc \in {"start", "resolve", "done"}
        /\ Len(log) <= 1
        /\ \A i \in 1..Len(log) : log[i].op = "device_id.get_or_create" /\ TokenFound
    /\ CheckResult

C15_Witness ==
    /\ cli_check
    /\ pc = "done"
    /\ result = Ok
    /\ token = Some(TokOk(Some(<<"t">>)))
    /\ log = <<Op("device_id.get_or_create", <<>>, TRUE)>>

\* ------------------------------------------------------------------ C16
\* The last successful call of op in the log; 0 when there is none.
LastApplied(op) ==
    LET S == {i \in 1..Len(log) : log[i].op = op /\ log[i].ok} IN
    IF S = {} THEN 0 ELSE CHOOSE i \in S : \A j \in S : j <= i

\* C16: whenever the loop waits in select!, the addresses last applied to the
\* interface and the resolvers last applied to the DNS Controller are the two
\* halves of one InterfaceConfigSet message, applied one right after the
\* other, or neither has been applied yet.
C16_ConfigHalvesInSync ==
    pc = "select" =>
        LET a == LastApplied("tun_device.set_ips")
            d == LastApplied("dns_controller.set_dns") IN
        \/ a = 0 /\ d = 0
        \/ /\ a > 1
           /\ d = a + 1
           /\ log[a - 1].op = "cb.OnSetInterfaceConfig"
           /\ log[a].arg \o log[d].arg = log[a - 1].arg

C16_Witness ==
    /\ pc = "select"
    /\ Count("cb.OnSetInterfaceConfig") = 2
    /\ LastApplied("tun_device.set_ips") > 0
    /\ log[LastApplied("tun_device.set_ips")].arg = <<"ip2">>
    /\ log[LastApplied("dns_controller.set_dns")].arg = <<"ns2">>
    /\ \E i \in 1..Len(log) : log[i] = Op("tun_device.set_ips", <<"ip1">>, TRUE)

\* ------------------------------------------------------------------ C17
\* The log entry of the arm that handles a callback of each kind.
CallbackEv(msg) ==
    Ev(CASE msg.kind = "OnDisconnect" -> "cb.OnDisconnect"
         [] msg.kind = "OnUpdateResources" -> "cb.OnUpdateResources"
         [] msg.kind = "TerminatingGracefully" -> "cb.TerminatingGracefully"
         [] msg.kind = "OnSetInterfaceConfig" -> "cb.OnSetInterfaceConfig"
         [] msg.kind = "OnUpdateRoutes" -> "cb.OnUpdateRoutes",
       msg.arg, TRUE)

CallbackEvs(msgs) == [i \in 1..Len(msgs) |-> CallbackEv(msgs[i])]

IsCallbackEv(e) == e.ev /\ e.op \in {CallbackEv(m).op : m \in InternalServerMsg}

\* Calls that reconfigure the interface or the DNS Controller from the loop.
ReconfigOps ==
    {"tun_device.set_ips", "dns_controller.set_dns", "tun_device.set_routes",
     "dns_controller.flush"}

\* The callback under whose arm the call at j was made: the last event before j.
ArmOf(j) == CHOOSE i \in 1..(j - 1) : log[i].ev /\ \A k \in (i + 1)..(j - 1) : ~log[k].ev

\* C17: whatever was sent, and however signals and notifications interleave,
\* the callbacks handled so far followed by those still queued are exactly
\* the callbacks sent, in the order sent: none skipped, merged or reordered.
\* Every reconfiguration call is made inside the arm of the callback that
\* triggered it, before the next event is selected, with that callback's
\* values, and each callback makes its call once; after a RoutesUpdated the
\* routes applied are that message's routes.
C17_CallbacksAppliedInOrder ==
    /\ SelectSeq(log, IsCallbackEv) \o CallbackEvs(cb_rx) = CallbackEvs(cb_sent)
    /\ \A j \in 1..Len(log) :
        log[j].op \in ReconfigOps =>
            /\ \E i \in 1..(j - 1) : log[i].ev
            /\ LET e == log[ArmOf(j)] IN
               CASE log[j].op = "tun_device.set_ips" ->
                        /\ e.op = "cb.OnSetInterfaceConfig"
                        /\ ArmOf(j) = j - 1
                        /\ log[j].arg = SubSeq(e.arg, 1, 1)
                 [] log[j].op = "dns_controller.set_dns" ->
                        /\ e.op = "cb.OnSetInterfaceConfig"
                        /\ ArmOf(j) = j - 2
                        /\ log[j].arg = SubSeq(e.arg, 2, 2)
                 [] log[j].op = "tun_device.set_routes" ->
                        /\ e.op = "cb.OnUpdateRoutes"
                        /\ ArmOf(j) = j - 1
                        /\ log[j].arg = e.arg
                 [] log[j].op = "dns_controller.flush" ->
                        /\ e.op = "cb.OnUpdateResources"
                        /\ ArmOf(j) = j - 1
    /\ \A i \in 1..Len(log) :
        /\ log[i].op = "cb.OnUpdateRoutes" =>
            /\ i < Len(log)
            /\ log[i + 1].op = "tun_device.set_routes"
            /\ log[i + 1].arg = log[i].arg
            /\ IF log[i + 1].ok THEN LoopContinuesAfter(i) ELSE LoopFailedAt(i)
        /\ log[i].op \in {"cb.OnUpdateResources", "cb.OnSetInterfaceConfig"} =>
            /\ i < Len(log)
            /\ log[i + 1].op \in ReconfigOps

C17_Witness ==
    /\ pc = "select"
    /\ Len(cb_sent) = 2
    /\ cb_rx = <<>>
    /\ cb_sent[1].kind = "OnUpdateRoutes"
    /\ cb_sent[2].kind = "OnUpdateRoutes"
    /\ cb_sent[1] # cb_sent[2]
    /\ log[Len(log)] = Op("tun_device.set_routes", cb_sent[2].arg, TRUE)

\* ------------------------------------------------------------------ C18
\* The loop has been entered: it waits in select! or has handled an event.
LoopEntered == pc = "select" \/ Handled > 0

\* C18: the interface is never made twice and never handed over twice; by
\* the time the loop is entered it has been made, successfully, and handed
\* over, exactly once each and before the first event; no address or route
\* is applied before the interface was made; and when making it fails, the
\* loop is never entered, the interface is not handed over, and no address,
\* route or resolver is ever applied.
C18_InterfaceOnceBeforeLoop ==
    /\ Count("tun_device.make_tun") <= 1
    /\ Count("session.set_tun") <= 1
    /\ LoopEntered =>
        \E m, t \in 1..Len(log) :
            /\ log[m] = Op("tun_device.make_tun", <<>>, TRUE)
            /\ log[t].op = "session.set_tun"
            /\ m < t
            /\ \A e \in 1..Len(log) : log[e].ev => t < e
    /\ \A j \in 1..Len(log) :
        log[j].op \in {"tun_device.set_ips", "tun_device.set_routes"} =>
            \E m \in 1..(j - 1) : log[m] = Op("tun_device.make_tun", <<>>, TRUE)
    /\ \A m \in 1..Len(log) :
        (log[m].op = "tun_device.make_tun" /\ ~log[m].ok) =>
            /\ ~LoopEntered
            /\ \A j \in 1..Len(log) :
                log[j].op \notin {"session.set_tun", "session.set_dns", "tun_device.set_ips",
                                  "tun_device.set_routes", "dns_controller.set_dns"}

C18_Witness ==
    /\ pc = "select"
    /\ Count("tun_device.make_tun") = 1
    /\ Count("session.set_tun") = 1
    /\ Count("tun_device.set_ips") = 1
    /\ Count("tun_device.set_routes") = 1

\* ------------------------------------------------------------------ C19
\* C19: a ResourcesUpdated callback makes one call, dns_controller.flush(),
\* and no other: what follows in the log is the next event or, when the loop
\* has ended, the teardown.  A successful flush leaves the loop running; a
\* failed one ends it with the failure "dns_controller.flush", after which
\* only disconnect() follows.
C19_ResourcesUpdatedFlushes ==
    /\ Count("dns_controller.flush") = Count("cb.OnUpdateResources")
    /\ \A i \in 1..Len(log) :
        log[i].op = "cb.OnUpdateResources" =>
            /\ i < Len(log)
            /\ log[i + 1].op = "dns_controller.flush"
            /\ IF log[i + 1].ok
               THEN /\ LoopContinuesAfter(i)
                    /\ i + 2 <= Len(log) => log[i + 2].ev
               ELSE /\ LoopFailedAt(i)
                    /\ result = Err(<<"dns_controller.flush">>)
                    /\ \A j \in (i + 2)..Len(log) : log[j].op = "session.disconnect"

C19_Witness ==
    /\ pc = "done"
    /\ result = Err(<<"dns_controller.flush">>)
    /\ Count("cb.OnUpdateResources") = 2
    /\ log[Len(log)].op = "session.disconnect"

\* ------------------------------------------------------------------ C20
\* The loop is not running and will not: it was left, or never entered.
LoopExited == pc \in {"after_loop", "returned", "done", "panicked"}

\* C20: once the loop has been left it is never entered again, and every call
\* made from then on is the notifier's close or disconnect(): no call on the
\* DNS Controller or the interface, no set_tun, set_dns or reset; and once
\* disconnect() has been issued nothing at all is called any more.
C20_NothingAfterDisconnect ==
    [][/\ LoopExited =>
            /\ LoopExited'
            /\ Len(log') >= Len(log)
            /\ SubSeq(log', 1, Len(log)) = log
            /\ \A j \in (Len(log) + 1)..Len(log') :
                log'[j].op \in {"network_notifier.close", "session.disconnect"}
       /\ Count("session.disconnect") > 0 => (log' = log /\ pc' = pc /\ result' = result)
      ]_vars

C20_Witness ==
    /\ pc = "done"
    /\ Len(log) > 0
    /\ log[Len(log)].op = "session.disconnect"
    /\ Count("session.reset") = 1
    /\ Count("network_notifier.close") = 1

====
